---------------------------- MODULE Spec2Model ----------------------------
(***************************************************************************)
(* A model of the compaction engine of gokvstore (compaction.go).          *)
(*                                                                         *)
(* A Compactor holds the candidate segment files, plans buckets with the   *)
(* recursive makeBuckets, runs one worker goroutine that compacts the      *)
(* buckets one after the other and hands one compactionStats per bucket to *)
(* the caller over an unbuffered channel, and finally deletes the input    *)
(* files of the buckets whose processed flag is set.                       *)
(*                                                                         *)
(* Segment files are named by naturals; the number is the creation time    *)
(* the file name encodes.                                                  *)
(***************************************************************************)
EXTENDS Naturals, Sequences, FiniteSets

(* ------------------------------ constants ------------------------------ *)

minBucketSize == 2
maxBucketSize == 8

(* ------------------------------- bounds -------------------------------- *)

\* Longest file list handed to makeBuckets directly.
MaxFiles == 34
\* Longest candidate file list of a Compact() run.
MaxRunFiles == 16
\* Longest candidate file list of a run checked for progress.
MaxLiveFiles == 9
\* Longest candidate file list of a run whose caller may cancel.
MaxCancelFiles == 9
\* Highest file name whose buffer may be the truncated one of a run.
MaxTruncated == 2
\* Frames the goroutine stack holds before the runtime aborts the program.
MaxDepth == 12

(* ------------------------------- helpers ------------------------------- *)

Range(s) == {s[i] : i \in 1..Len(s)}

Ascending(n) == [i \in 1..n |-> i]

Descending(n) == [i \in 1..n |-> n + 1 - i]

RECURSIVE SumSeq(_)
SumSeq(s) == IF s = <<>> THEN 0 ELSE Head(s) + SumSeq(Tail(s))

\* Go's files[0 : len(files)/2] and files[len(files)/2 :].
FirstHalf(s) == SubSeq(s, 1, Len(s) \div 2)

\* a split that loses the file at the midpoint
SecondHalfSkipsOne(s) == SubSeq(s, (Len(s) \div 2) + 2, Len(s))

SecondHalf(s) == SubSeq(s, (Len(s) \div 2) + 1, Len(s))

\* a lower bound that is off by one
FitsBucketLoose(s) == Len(s) >= minBucketSize - 1 /\ Len(s) <= maxBucketSize

\* The condition of makeBuckets under which the list becomes one bucket.
FitsBucket(s) == Len(s) >= minBucketSize /\ Len(s) <= maxBucketSize

\* bucket{files, false}
NewBucket(s) == [files |-> s, processed |-> FALSE]

(* -------------------------------- state -------------------------------- *)

VARIABLES
    files,          \* c.files
    filesNil,       \* whether c.files is the nil slice
    buckets,        \* c.buckets
    stack,          \* the frames of makeBuckets on the caller's stack
    pc,             \* where the caller of Compact()/makeBuckets is
    wpc,            \* where the worker goroutine of compactBuckets is
    wi,             \* the worker's index into c.buckets (the range loop)
    iters,          \* compactBucket's iters
    merged,         \* what the merging iterator has still to emit
    emitted,        \* mergingIter.numKeysAfterCompaction
    filter,         \* the keys added to the bloom filter of the bucket
    wErr,           \* whether a Set on the current writer has failed
    cs,             \* the compactionStats the worker is about to send
    resultsClosed,  \* close(results) has run
    doneClosed,     \* close(done) has run
    received,       \* the results the range loop of Compact() has received
    data,           \* the encoded contents of every input segment
    disk,           \* the input segments still on disk
    ssts,           \* the segments NewSSTable has created, in order
    reads,          \* the files ReadFile was called on, in order
    deletes,        \* the files DeleteSSTable was called on, in order
    di,             \* deleteProcessedFiles' index into c.buckets
    dj,             \* deleteProcessedFiles' index into b.files
    fails           \* the steps that failed so far, each with its bucket

mainVars == <<files, filesNil, pc, received, doneClosed, di, dj>>
planVars == <<buckets, stack>>
workVars == <<wpc, wi, iters, merged, emitted, filter, wErr, cs, resultsClosed>>
fsVars == <<data, disk, ssts, reads, deletes, fails>>
vars == <<files, filesNil, buckets, stack, pc, wpc, wi, iters, merged, emitted,
          filter, wErr, cs, resultsClosed, doneClosed, received, data, disk,
          ssts, reads, deletes, di, dj, fails>>

(* ----------------------------- makeBuckets ----------------------------- *)

\* A frame of makeBuckets: its argument and how far its body has run.
Frame(s) == [files |-> s, at |-> "entry"]

Top == stack[Len(stack)]

Pop == SubSeq(stack, 1, Len(stack) - 1)

SetTopAt(at) == [stack EXCEPT ![Len(stack)].at = at]

\* Calling makeBuckets once more: the call gets a frame, or the goroutine
\* stack is exhausted and the runtime ends the program.
Call(frames, s) ==
    IF Len(frames) < MaxDepth
    THEN /\ stack' = Append(frames, Frame(s))
         /\ pc' = pc
    ELSE /\ stack' = frames
         /\ pc' = "overflow"

\* where the caller goes when the outermost makeBuckets returns
AfterMakeBuckets(frames) == IF frames = <<>> THEN "planned" ELSE pc

\* if len(files) >= minBucketSize && len(files) <= maxBucketSize { append }
MakeBucketsLeaf ==
    /\ pc = "makeBuckets"
    /\ stack # <<>>
    /\ Top.at = "entry"
    /\ FitsBucket(Top.files)
    /\ buckets' = Append(buckets, NewBucket(Top.files))
    /\ stack' = Pop
    /\ pc' = AfterMakeBuckets(Pop)
    /\ UNCHANGED <<files, filesNil, received, doneClosed, di, dj, workVars, fsVars>>

\* else { c.makeBuckets(files[0 : len(files)/2]) ...
MakeBucketsFirst ==
    /\ pc = "makeBuckets"
    /\ stack # <<>>
    /\ Top.at = "entry"
    /\ ~FitsBucket(Top.files)
    /\ Call(SetTopAt("first"), FirstHalf(Top.files))
    /\ UNCHANGED <<files, filesNil, received, doneClosed, di, dj, buckets, workVars, fsVars>>

\* ... c.makeBuckets(files[len(files)/2:]) }
MakeBucketsSecond ==
    /\ pc = "makeBuckets"
    /\ stack # <<>>
    /\ Top.at = "first"
    /\ Call(SetTopAt("second"), SecondHalf(Top.files))
    /\ UNCHANGED <<files, filesNil, received, doneClosed, di, dj, buckets, workVars, fsVars>>

\* the return of a makeBuckets that has made both recursive calls
MakeBucketsReturn ==
    /\ pc = "makeBuckets"
    /\ stack # <<>>
    /\ Top.at = "second"
    /\ stack' = Pop
    /\ pc' = AfterMakeBuckets(Pop)
    /\ UNCHANGED <<files, filesNil, received, doneClosed, di, dj, buckets, workVars, fsVars>>

MakeBuckets ==
    \/ MakeBucketsLeaf
    \/ MakeBucketsFirst
    \/ MakeBucketsSecond
    \/ MakeBucketsReturn

(* --------------------------- segment contents -------------------------- *)

Rec(k, v) == [k |-> k, v |-> v]

\* What the write path stored in segment f: records in increasing key order,
\* each value naming the segment it was written to.
Content(f) ==
    IF f % 2 = 1
    THEN <<Rec(IF f % 4 = 1 THEN 2 ELSE 4, f)>>
    ELSE <<Rec(1, f), Rec(3, f)>>

\* A segment's buffer: the records encoded in it and how many of them a
\* decoder can read before the buffer ends (fewer than all: truncated).
Buffer(recs, cut) == [recs |-> recs, cut |-> cut]

Truncated(buf) == buf.cut < Len(buf.recs)

\* NewChunkIterator(data): the records the iterator yields, the count of
\* keys it has seen once drained, and the decode error it ends with.
NewChunkIterator(f, buf) ==
    [file |-> f,
     recs |-> SubSeq(buf.recs, 1, buf.cut),
     numKeys |-> buf.cut,
     err |-> Truncated(buf)]

\* sort.Sort(ByTime{b.files, DefaultNameFormat}): oldest segment first.
SortByTime(s) ==
    [i \in 1..Len(s) |->
        CHOOSE x \in Range(s) :
            /\ Cardinality({j \in 1..Len(s) : s[j] < x}) < i
            /\ i <= Cardinality({j \in 1..Len(s) : s[j] <= x})]

IterKeys(its) == UNION {{its[i].recs[j].k : j \in 1..Len(its[i].recs)} : i \in 1..Len(its)}

\* The value the merge keeps for key k: the one of the last iterator of the
\* list (the most recent segment) that holds k.
Winner(its, k) ==
    LET holders == {i \in 1..Len(its) : \E j \in 1..Len(its[i].recs) : its[i].recs[j].k = k}
        i == CHOOSE h \in holders : \A g \in holders : g <= h
        j == CHOOSE x \in 1..Len(its[i].recs) : its[i].recs[x].k = k
    IN its[i].recs[j]

RECURSIVE MergeKeys(_, _)
MergeKeys(its, keys) ==
    IF keys = {} THEN <<>>
    ELSE LET k == CHOOSE x \in keys : \A y \in keys : x <= y
         IN <<Winner(its, k)>> \o MergeKeys(its, keys \ {k})

\* NewMergingIterator(iters): everything the iterator will emit, in order.
NewMergingIterator(its) == MergeKeys(its, IterKeys(its))

(* ---------------------------- initial states --------------------------- *)

NoStats == [bucket |-> 0, numFilesBeforeCompaction |-> 0, numFilesAfterCompaction |-> 0,
            numKeysBeforeCompaction |-> 0, numKeysAfterCompaction |-> 0, err |-> FALSE]

\* The segments of a store directory with n files, of which file t (if any)
\* has a truncated buffer.
Segments(n, t) ==
    [f \in 1..n |-> Buffer(Content(f), IF f = t THEN Len(Content(f)) - 1 ELSE Len(Content(f)))]

\* The files whose buffer may be truncated (0: none is).
TruncatedChoices(n) == {t \in 0..n : t <= MaxTruncated}

\* NewCompactor: files from GetDataFiles, no bucket, nothing started.
InitWith(n, fs, isNil, t, at) ==
    /\ files = fs
    /\ filesNil = isNil
    /\ buckets = <<>>
    /\ stack = IF at = "makeBuckets" THEN <<Frame(fs)>> ELSE <<>>
    /\ pc = at
    /\ wpc = "idle"
    /\ wi = 0
    /\ iters = <<>>
    /\ merged = <<>>
    /\ emitted = 0
    /\ filter = <<>>
    /\ wErr = FALSE
    /\ cs = NoStats
    /\ resultsClosed = FALSE
    /\ doneClosed = FALSE
    /\ received = <<>>
    /\ data = Segments(n, t)
    /\ disk = 1..n
    /\ ssts = <<>>
    /\ reads = <<>>
    /\ deletes = <<>>
    /\ di = 0
    /\ dj = 0
    /\ fails = <<>>

\* A call of makeBuckets on any file list, on a fresh Compactor.
InitBuckets ==
    \E n \in 0..MaxFiles : \E fs \in {Ascending(n), Descending(n)} :
        InitWith(n, fs, FALSE, 0, "makeBuckets")

SpecBuckets == InitBuckets /\ [][MakeBuckets]_vars

(* ------------------------------- Compact ------------------------------- *)

\* a Compact() without the gate
shouldCompactNoGate == TRUE

\* a gate that lets minBucketSize files through
shouldCompactAtLeast == ~filesNil /\ Len(files) >= minBucketSize

\* c.files != nil && len(c.files) > minBucketSize
shouldCompact == ~filesNil /\ Len(files) > minBucketSize

\* Compact(), lines 57-61: the gate, then the call of makeBuckets(c.files).
\* Before the gate no channel exists and no close(done) is deferred.
CompactGate ==
    /\ pc = "start"
    /\ IF shouldCompact
       THEN /\ pc' = "makeBuckets"
            /\ stack' = <<Frame(files)>>
       ELSE /\ pc' = "returned"
            /\ stack' = stack
    /\ UNCHANGED <<files, filesNil, received, doneClosed, di, dj, buckets, workVars, fsVars>>

\* Compact(), lines 62-64, and compactBuckets, lines 88-101: the channels
\* are made, the worker goroutine is started, the caller begins to range.
CompactBuckets ==
    /\ pc = "planned"
    /\ pc' = "recv"
    /\ wpc' = "loop"
    /\ wi' = 1
    /\ UNCHANGED <<files, filesNil, received, doneClosed, di, dj, planVars, iters,
                   merged, emitted, filter, wErr, cs, resultsClosed, fsVars>>

(* ------------------------------ the worker ----------------------------- *)

Failed(step) == Append(fails, [bucket |-> wi, step |-> step])

\* an error return that drops the error
ErrStatsDropped == [NoStats EXCEPT !.bucket = wi]

\* return compactionStats{err: err}
ErrStats == [NoStats EXCEPT !.bucket = wi, !.err = TRUE]

\* statistics that count the input files where the keys are asked for
OkStatsCountsFiles ==
    [bucket |-> wi,
     numFilesBeforeCompaction |-> Len(buckets[wi].files),
     numFilesAfterCompaction |-> 1,
     numKeysBeforeCompaction |-> Len(iters),
     numKeysAfterCompaction |-> emitted,
     err |-> FALSE]

\* the statistics of a bucket that went through, lines 142-153
OkStats ==
    [bucket |-> wi,
     numFilesBeforeCompaction |-> Len(buckets[wi].files),
     numFilesAfterCompaction |-> 1,
     numKeysBeforeCompaction |-> SumSeq([i \in 1..Len(iters) |-> iters[i].numKeys]),
     numKeysAfterCompaction |-> emitted,
     err |-> FALSE]

\* a compactBucket that leaves b.files in the order it found them
BucketOrderKept(fs) == fs

\* sort.Sort(ByTime{b.files, DefaultNameFormat}), line 109
BucketOrder(fs) == SortByTime(fs)

\* for _, bucket := range c.buckets: the next bucket, whose compactBucket
\* begins by sorting b.files in place (lines 106-109)
WorkerNextBucket ==
    /\ wpc = "loop"
    /\ wi <= Len(buckets)
    /\ buckets' = [buckets EXCEPT ![wi].files = BucketOrder(@)]
    /\ iters' = <<>>
    /\ filter' = <<>>
    /\ wpc' = "read"
    /\ UNCHANGED <<mainVars, stack, wi, merged, emitted, wErr, cs, resultsClosed, fsVars>>

\* a worker without the deferred close
ExitLeavesOpen == resultsClosed

\* defer close(results), line 90
ExitCloses == TRUE

\* the range loop is over: the deferred close(results) runs
WorkerExit ==
    /\ wpc = "loop"
    /\ wi > Len(buckets)
    /\ resultsClosed' = ExitCloses
    /\ wpc' = "exited"
    /\ UNCHANGED <<mainVars, planVars, wi, iters, merged, emitted, filter, wErr, cs, fsVars>>

\* one round of the loop of lines 110-118: ReadFile, and on success a chunk
\* iterator over the data read; a file that is gone cannot be read
ReadFile ==
    /\ wpc = "read"
    /\ Len(iters) < Len(buckets[wi].files)
    /\ LET f == buckets[wi].files[Len(iters) + 1] IN
        /\ reads' = Append(reads, f)
        /\ \E ok \in BOOLEAN :
            IF ok /\ f \in disk
            THEN /\ iters' = Append(iters, NewChunkIterator(f, data[f]))
                 /\ wpc' = IF Len(iters) + 1 = Len(buckets[wi].files) THEN "newsst" ELSE "read"
                 /\ UNCHANGED <<cs, fails>>
            ELSE /\ cs' = ErrStats
                 /\ fails' = Failed("read")
                 /\ wpc' = "select"
                 /\ UNCHANGED iters
    /\ UNCHANGED <<mainVars, planVars, wi, merged, emitted, filter, wErr, resultsClosed,
                   data, disk, ssts, deletes>>

\* the segment NewSSTable creates: a data file and a filter file, both
\* open; setKeys are the keys w.Set is called with, recs what it wrote
NewSegment == [bucket |-> wi, recs |-> <<>>, setKeys |-> <<>>, filter |-> <<>>,
               filterWritten |-> FALSE, filterOpen |-> TRUE, closed |-> FALSE]

\* lines 119-125: NewSSTable, NewWriter, NewMergingIterator
NewSSTable ==
    /\ wpc = "newsst"
    /\ \E ok \in BOOLEAN :
        IF ok
        THEN /\ ssts' = Append(ssts, NewSegment)
             /\ merged' = NewMergingIterator(iters)
             /\ emitted' = 0
             /\ wErr' = FALSE
             /\ wpc' = "merge"
             /\ UNCHANGED <<cs, fails>>
        ELSE /\ cs' = ErrStats
             /\ fails' = Failed("create")
             /\ wpc' = "select"
             /\ UNCHANGED <<ssts, merged, emitted, wErr>>
    /\ UNCHANGED <<mainVars, planVars, wi, iters, filter, resultsClosed, data, disk,
                   reads, deletes>>

\* a loop that adds the value to the filter
FilterAddValue(f, r) == Append(f, r.v)

\* filter.Add(mergingIter.Key()), line 127
FilterAdd(f, r) == Append(f, r.k)

\* a Set on a writer that has failed before fails as well
SetCanSucceed == ~wErr

\* one round of the loop of lines 126-129: the key goes to the filter and
\* the record to the writer, whose result the loop does not look at
MergeStep ==
    /\ wpc = "merge"
    /\ merged # <<>>
    /\ filter' = FilterAdd(filter, Head(merged))
    /\ \E ok \in BOOLEAN :
        IF ok /\ SetCanSucceed
        THEN /\ ssts' = [ssts EXCEPT ![Len(ssts)].recs = Append(@, Head(merged)),
                                     ![Len(ssts)].setKeys = Append(@, Head(merged).k)]
             /\ UNCHANGED <<wErr, fails>>
        ELSE /\ ssts' = [ssts EXCEPT ![Len(ssts)].setKeys = Append(@, Head(merged).k)]
             /\ wErr' = TRUE
             /\ fails' = IF wErr THEN fails ELSE Failed("set")
    /\ merged' = Tail(merged)
    /\ emitted' = emitted + 1
    /\ UNCHANGED <<mainVars, planVars, wpc, wi, iters, cs, resultsClosed, data, disk,
                   reads, deletes>>

\* a compactBucket that does not look at the error of filter.WriteTo
FilterErrIgnored(err) == FALSE

\* whether the error of filter.WriteTo makes compactBucket return (line 132)
FilterErrReturns(err) == err

\* lines 130-134: filter.WriteTo(sst.filterfile); the deferred Close of the
\* filter file runs when compactBucket returns
FilterWrite ==
    /\ wpc = "merge"
    /\ merged = <<>>
    /\ \E ok \in BOOLEAN :
        /\ fails' = IF ok THEN fails ELSE Failed("filter")
        /\ IF FilterErrReturns(~ok)
           THEN /\ cs' = ErrStats
                /\ ssts' = [ssts EXCEPT ![Len(ssts)].filterOpen = FALSE]
                /\ wpc' = "select"
           ELSE /\ ssts' = [ssts EXCEPT ![Len(ssts)].filterWritten = ok,
                                        ![Len(ssts)].filter = IF ok THEN filter ELSE @]
                /\ wpc' = "close"
                /\ UNCHANGED cs
    /\ UNCHANGED <<mainVars, planVars, wi, iters, merged, emitted, filter, wErr,
                   resultsClosed, data, disk, reads, deletes>>

\* w.Close() reports the failure of an earlier write of the writer
CloseCanSucceed == ~wErr

\* a compactBucket that sets the flag before it looks at the error of Close
WriterCloseMarksFirst ==
    /\ wpc = "close"
    /\ buckets' = [buckets EXCEPT ![wi].processed = TRUE]
    /\ \E ok \in BOOLEAN :
        IF ok /\ CloseCanSucceed
        THEN /\ ssts' = [ssts EXCEPT ![Len(ssts)].closed = TRUE,
                                     ![Len(ssts)].filterOpen = FALSE]
             /\ cs' = OkStats
             /\ UNCHANGED fails
        ELSE /\ ssts' = [ssts EXCEPT ![Len(ssts)].filterOpen = FALSE]
             /\ cs' = ErrStats
             /\ fails' = IF wErr THEN fails ELSE Failed("close")
    /\ wpc' = "select"
    /\ UNCHANGED <<mainVars, stack, wi, iters, merged, emitted, filter, wErr,
                   resultsClosed, data, disk, reads, deletes>>

\* lines 135-154: w.Close(); on success the bucket is processed
WriterClose ==
    /\ wpc = "close"
    /\ \E ok \in BOOLEAN :
        IF ok /\ CloseCanSucceed
        THEN /\ ssts' = [ssts EXCEPT ![Len(ssts)].closed = TRUE,
                                     ![Len(ssts)].filterOpen = FALSE]
             /\ buckets' = [buckets EXCEPT ![wi].processed = TRUE]
             /\ cs' = OkStats
             /\ UNCHANGED fails
        ELSE /\ ssts' = [ssts EXCEPT ![Len(ssts)].filterOpen = FALSE]
             /\ cs' = ErrStats
             /\ fails' = IF wErr THEN fails ELSE Failed("close")
             /\ UNCHANGED buckets
    /\ wpc' = "select"
    /\ UNCHANGED <<mainVars, stack, wi, iters, merged, emitted, filter, wErr,
                   resultsClosed, data, disk, reads, deletes>>

\* a worker that leaves the loop after a bucket that failed
NextIndexStopsOnErr(c) == IF c.err THEN Len(buckets) + 1 ELSE wi + 1

\* a loop that steps over every other bucket
NextIndexSkipsOne(c) == wi + 2

\* the range loop of the worker goes on to the next bucket whatever the
\* result it has just sent
NextIndex(c) == wi + 1

\* a send that does not wait for the receiver: the result is handed over
\* if the caller is at its receive and dropped otherwise
SendResultNonBlocking ==
    /\ wpc = "select"
    /\ IF pc = "recv"
       THEN /\ received' = Append(received, cs)
            /\ pc' = "print"
       ELSE UNCHANGED <<received, pc>>
    /\ wi' = wi + 1
    /\ wpc' = "loop"
    /\ UNCHANGED <<files, filesNil, doneClosed, di, dj, planVars, iters, merged,
                   emitted, filter, wErr, cs, resultsClosed, fsVars>>

\* select, case results <- cs: the caller is at its receive, the result is
\* handed over and the worker goes on with the next bucket
SendResult ==
    /\ wpc = "select"
    /\ pc = "recv"
    /\ received' = Append(received, cs)
    /\ pc' = "print"
    /\ wi' = NextIndex(cs)
    /\ wpc' = "loop"
    /\ UNCHANGED <<files, filesNil, doneClosed, di, dj, planVars, iters, merged,
                   emitted, filter, wErr, cs, resultsClosed, fsVars>>

\* select, case <-done: return, and the deferred close(results) runs
WorkerCancelled ==
    /\ wpc = "select"
    /\ doneClosed
    /\ resultsClosed' = ExitCloses
    /\ wpc' = "exited"
    /\ UNCHANGED <<mainVars, planVars, wi, iters, merged, emitted, filter, wErr, cs, fsVars>>

(* ------------------------------ the caller ----------------------------- *)

\* the body of the range loop of Compact(), lines 65-70
PrintResult ==
    /\ pc = "print"
    /\ pc' = "recv"
    /\ UNCHANGED <<files, filesNil, received, doneClosed, di, dj, planVars, workVars, fsVars>>

\* a caller that leaves its loop after the first result
RangeEndsAfterFirst ==
    /\ pc = "recv"
    /\ received # <<>>
    /\ pc' = "delete"
    /\ di' = 1
    /\ dj' = 1
    /\ UNCHANGED <<files, filesNil, received, doneClosed, planVars, workVars, fsVars>>

\* the range loop ends on the closed channel; deleteProcessedFiles begins
RangeEnds ==
    /\ pc = "recv"
    /\ resultsClosed
    /\ pc' = "delete"
    /\ di' = 1
    /\ dj' = 1
    /\ UNCHANGED <<files, filesNil, received, doneClosed, planVars, workVars, fsVars>>

\* a deletion that does not look at the flag
ShouldDeleteAny(b) == TRUE

\* if b.processed
ShouldDelete(b) == b.processed

\* deleteProcessedFiles: a bucket that is not processed is passed over
DeleteSkip ==
    /\ pc = "delete"
    /\ di <= Len(buckets)
    /\ ~ShouldDelete(buckets[di])
    /\ di' = di + 1
    /\ UNCHANGED <<files, filesNil, pc, received, doneClosed, dj, planVars, workVars, fsVars>>

\* deleteProcessedFiles: c.fs.DeleteSSTable(f) for the next file of a
\* processed bucket
DeleteSSTable ==
    /\ pc = "delete"
    /\ di <= Len(buckets)
    /\ ShouldDelete(buckets[di])
    /\ deletes' = Append(deletes, buckets[di].files[dj])
    /\ disk' = disk \ {buckets[di].files[dj]}
    /\ IF dj < Len(buckets[di].files)
       THEN /\ dj' = dj + 1
            /\ di' = di
       ELSE /\ dj' = 1
            /\ di' = di + 1
    /\ UNCHANGED <<files, filesNil, pc, received, doneClosed, planVars, workVars,
                   data, ssts, reads, fails>>

\* Compact() returns and the deferred close(done) runs
CompactReturn ==
    /\ pc = "delete"
    /\ di > Len(buckets)
    /\ pc' = "returned"
    /\ doneClosed' = TRUE
    /\ UNCHANGED <<files, filesNil, received, di, dj, planVars, workVars, fsVars>>

(* ---------------------------- specifications --------------------------- *)

\* A Compact() run on a fresh Compactor over a store directory of up to
\* MaxRunFiles segments, one of which may have a truncated buffer.
Init ==
    \E n \in 0..MaxRunFiles : \E fs \in {Ascending(n), Descending(n)} :
        \E isNil \in {FALSE, n = 0} : \E t \in TruncatedChoices(n) :
            InitWith(n, fs, isNil, t, "start")

Next ==
    \/ CompactGate
    \/ MakeBuckets
    \/ CompactBuckets
    \/ WorkerNextBucket
    \/ WorkerExit
    \/ ReadFile
    \/ NewSSTable
    \/ MergeStep
    \/ FilterWrite
    \/ WriterClose
    \/ SendResult
    \/ PrintResult
    \/ RangeEnds
    \/ DeleteSkip
    \/ DeleteSSTable
    \/ CompactReturn

Spec == Init /\ [][Next]_vars

\* A call of makeBuckets that is scheduled as long as it can take a step.
SpecBucketsFair == InitBuckets /\ [][MakeBuckets]_vars /\ WF_vars(MakeBuckets)

\* The planning part of Compact(): the gate and makeBuckets(c.files), on a
\* store directory of up to MaxFiles segments.
InitPlan ==
    \E n \in 0..MaxFiles : \E fs \in {Ascending(n), Descending(n)} :
        \E isNil \in {FALSE, n = 0} :
            InitWith(n, fs, isNil, 0, "start")

Plan ==
    \/ CompactGate
    \/ MakeBuckets

SpecPlan == InitPlan /\ [][Plan]_vars /\ WF_vars(Plan)

\* the steps of the goroutine that calls Compact()
Caller ==
    \/ CompactGate
    \/ MakeBuckets
    \/ CompactBuckets
    \/ PrintResult
    \/ RangeEnds
    \/ DeleteSkip
    \/ DeleteSSTable
    \/ CompactReturn

\* the steps of the worker goroutine; the handoff of a result is a step of
\* both goroutines
Worker ==
    \/ WorkerNextBucket
    \/ WorkerExit
    \/ ReadFile
    \/ NewSSTable
    \/ MergeStep
    \/ FilterWrite
    \/ WriterClose
    \/ SendResult

InitLive ==
    \E n \in 0..MaxLiveFiles : \E fs \in {Ascending(n), Descending(n)} :
        \E isNil \in {FALSE, n = 0} : \E t \in TruncatedChoices(n) :
            InitWith(n, fs, isNil, t, "start")

\* A Compact() run in which the scheduler runs each goroutine that can take
\* a step and every call into the file system returns.
SpecLive ==
    InitLive /\ [][Caller \/ Worker]_vars /\ WF_vars(Caller) /\ WF_vars(Worker)

\* close(done) by a caller of compactBuckets that is still in, or between,
\* its receives
CloseDone ==
    /\ pc \in {"recv", "print"}
    /\ ~doneClosed
    /\ doneClosed' = TRUE
    /\ UNCHANGED <<files, filesNil, pc, received, di, dj, planVars, workVars, fsVars>>

InitCancel ==
    \E n \in 0..MaxCancelFiles : \E fs \in {Ascending(n), Descending(n)} :
        InitWith(n, fs, FALSE, 0, "start")

NextCancel ==
    \/ CompactGate
    \/ MakeBuckets
    \/ CompactBuckets
    \/ Worker
    \/ WorkerCancelled
    \/ PrintResult
    \/ CloseDone

\* compactBuckets(done) under a caller that plans the buckets as Compact()
\* does, receives results, and may close done at any moment.
SpecCancel == InitCancel /\ [][NextCancel]_vars

(* ------------------------------- claims -------------------------------- *)

Buckets == 1..Len(buckets)

BucketFiles(i) == Range(buckets[i].files)

Deleted == Range(deletes)

\* compactBucket has returned for bucket i
Returned(i) == wi > i \/ (wi = i /\ wpc = "select")

\* the statistics records of bucket i: the one the worker holds, and the
\* ones the caller has received
StatsOf(i) ==
    (IF wi = i /\ wpc = "select" THEN {cs} ELSE {})
        \cup {received[k] : k \in {x \in 1..Len(received) : received[x].bucket = i}}

\* Compact() has returned after passing the gate
RunOver == pc = "returned" /\ shouldCompact

FailedAt(i, steps) == \E k \in 1..Len(fails) : fails[k].bucket = i /\ fails[k].step \in steps

DeletedOnlyProcessed ==
    \A k \in 1..Len(deletes) :
        \E i \in Buckets : deletes[k] \in BucketFiles(i) /\ buckets[i].processed

ProcessedNeverReset ==
    \A i \in Buckets : buckets[i].processed => (i <= Len(buckets') /\ buckets'[i].processed)

\* C1: every file handed to DeleteSSTable belongs to a bucket whose processed
\* flag is true, and a processed flag that is true never becomes false again.
C1_DeleteOnlyProcessed == [](DeletedOnlyProcessed) /\ [][ProcessedNeverReset]_vars

\* a run that deleted the files of one bucket and kept those of another
C1_Witness ==
    /\ pc = "returned"
    /\ \E i, j \in Buckets :
        /\ buckets[i].processed /\ BucketFiles(i) \subseteq Deleted
        /\ ~buckets[j].processed /\ BucketFiles(j) \subseteq disk

\* C2: when Compact() has returned after the gate, every bucket has exactly
\* one statistics record, and its input files are all deleted if the record
\* has no error and none of them is deleted if it has one.
C2_DeletedIffNoError ==
    RunOver =>
        \A i \in Buckets :
            /\ Cardinality({k \in 1..Len(received) : received[k].bucket = i}) = 1
            /\ \A r \in StatsOf(i) :
                IF r.err
                THEN BucketFiles(i) \cap Deleted = {} /\ BucketFiles(i) \subseteq disk
                ELSE BucketFiles(i) \subseteq Deleted /\ BucketFiles(i) \cap disk = {}

\* a run with two buckets of which the first went through and the second
\* failed
C2_Witness ==
    /\ RunOver
    /\ Len(received) = 2
    /\ ~received[1].err /\ received[2].err
    /\ BucketFiles(1) = Deleted /\ BucketFiles(2) \subseteq disk

OutputSteps == {"create", "set", "filter", "close"}

HasTruncated(i) == \E f \in BucketFiles(i) : Truncated(data[f])

\* C4: a bucket with a truncated segment is aborted: it is never marked
\* processed, no new segment is created for it, none of its files is
\* deleted, and its statistics carry an error.
C4_TruncatedAborts ==
    \A i \in Buckets :
        (HasTruncated(i) /\ Returned(i)) =>
            /\ ~buckets[i].processed
            /\ \A k \in 1..Len(ssts) : ssts[k].bucket # i
            /\ BucketFiles(i) \cap Deleted = {}
            /\ \A r \in StatsOf(i) : r.err

\* C5: when Compact() has returned after the gate, there are as many new
\* segments as processed buckets, one for each, and none for a bucket that
\* failed.
C5_OneSegmentPerProcessed ==
    RunOver =>
        /\ Len(ssts) = Cardinality({i \in Buckets : buckets[i].processed})
        /\ \A i \in Buckets :
            Cardinality({k \in 1..Len(ssts) : ssts[k].bucket = i})
                = IF buckets[i].processed THEN 1 ELSE 0

GateHolds ==
    /\ shouldCompact <=> Len(files) > minBucketSize
    /\ Len(files) <= minBucketSize =>
        /\ pc \in {"start", "returned"}
        /\ buckets = <<>> /\ stack = <<>>
        /\ wpc = "idle" /\ ~resultsClosed /\ ~doneClosed
        /\ reads = <<>> /\ ssts = <<>> /\ deletes = <<>>
        /\ disk = Range(files)

\* the step that evaluates the gate changes nothing of the Compactor, the
\* worker or the file system
GateStepPure ==
    pc = "start" =>
        UNCHANGED <<files, filesNil, buckets, received, doneClosed, workVars, fsVars>>

\* C6: shouldCompact is true exactly when there are more than minBucketSize
\* files and evaluating it changes nothing, and with at most minBucketSize
\* files (a nil list too) Compact() builds no bucket, starts no worker, reads
\* nothing, creates nothing and deletes nothing.
C6_Gate == [](GateHolds) /\ [][GateStepPure]_vars

\* Compact() has returned on exactly minBucketSize files
C6_Witness == pc = "returned" /\ Len(files) = minBucketSize /\ ~filesNil

\* the places of file f in the buckets
PlacesOf(f) ==
    {p \in Buckets \X (1..maxBucketSize) :
        p[2] <= Len(buckets[p[1]].files) /\ buckets[p[1]].files[p[2]] = f}

IndexIn(s, x) == CHOOSE k \in 1..Len(s) : s[k] = x

\* C7: when makeBuckets has returned, every file of the list is in exactly
\* one place of one bucket, the buckets hold nothing else, and the files of
\* a bucket are in the order they have in the list.
C7_Coverage ==
    pc = "planned" =>
        /\ \A f \in Range(files) : Cardinality(PlacesOf(f)) = 1
        /\ \A i \in Buckets : BucketFiles(i) \subseteq Range(files)
        /\ SumSeq([i \in Buckets |-> Len(buckets[i].files)]) = Len(files)
        /\ \A i \in Buckets : \A a, b \in 1..Len(buckets[i].files) :
            a < b => IndexIn(files, buckets[i].files[a]) < IndexIn(files, buckets[i].files[b])

\* makeBuckets has returned on a list that took two levels of splitting
C7_Witness == pc = "planned" /\ Len(files) = 17 /\ Len(buckets) = 3 /\ files[1] = 17

\* C8: every bucket has between minBucketSize and maxBucketSize files, a
\* list shorter than minBucketSize gets no bucket, and 10 files give two
\* buckets whose sizes add up to 10.
C8_Bound ==
    /\ \A i \in Buckets :
        Len(buckets[i].files) >= minBucketSize /\ Len(buckets[i].files) <= maxBucketSize
    /\ Len(files) < minBucketSize => buckets = <<>>
    /\ (pc = "planned" /\ Len(files) = 10) =>
        /\ Len(buckets) = 2
        /\ Len(buckets[1].files) + Len(buckets[2].files) = 10

\* makeBuckets has returned on 10 files
C8_Witness == pc = "planned" /\ Len(files) = 10 /\ Len(buckets) = 2

\* every call of makeBuckets made by makeBuckets is on a shorter list
CallsShrink ==
    Len(stack') > Len(stack) =>
        Len(stack'[Len(stack')].files) < Len(stack[Len(stack)].files)

\* C9: makeBuckets returns on every list, each recursive call being on a
\* strictly shorter list, and on a list shorter than minBucketSize it
\* returns without having added a bucket.
C9_Terminates ==
    /\ [][CallsShrink]_vars
    /\ <>(pc = "planned" /\ (Len(files) < minBucketSize => buckets = <<>>))

\* bucket i was attempted: its first file was read
Attempted(i) == buckets[i].files[1] \in Range(reads)

\* C10: the worker leaves its loop only after it has attempted every bucket
\* and handed over a result for each, whichever of them failed, and when
\* Compact() has returned every bucket whose result has no error is
\* processed and has its files deleted.
C10_ErrorIsolation ==
    /\ resultsClosed =>
        \A i \in Buckets : Attempted(i) /\ \E k \in 1..Len(received) : received[k].bucket = i
    /\ RunOver =>
        \A i \in Buckets : \A r \in StatsOf(i) :
            ~r.err => buckets[i].processed /\ BucketFiles(i) \subseteq Deleted

\* a finished run whose first bucket failed and whose second bucket went
\* through and lost its files
C10_Witness ==
    /\ RunOver
    /\ Len(received) = 2
    /\ received[1].err /\ ~received[2].err
    /\ buckets[2].processed /\ BucketFiles(2) = Deleted

\* C11: the caller receives the results in bucket-list order, the k-th one
\* received being that of the k-th bucket, and when Compact() has returned
\* after the gate it has received exactly one for every bucket.
C11_OnePerBucketInOrder ==
    /\ \A k \in 1..Len(received) : received[k].bucket = k /\ k <= Len(buckets)
    /\ resultsClosed => Len(received) = Len(buckets)
    /\ RunOver => Len(received) = Len(buckets) /\ Len(buckets) >= 1

\* a finished run of two buckets, both of which failed
C11_Witness ==
    /\ RunOver
    /\ Len(buckets) = 2
    /\ Len(received) = 2
    /\ received[1].err /\ received[2].err

\* C12: deleteProcessedFiles runs, and DeleteSSTable is called, only when
\* the worker has attempted every bucket, closed the results channel and
\* exited, so that no bucket is pending or being merged and the processed
\* flags can no longer be written.
C12_DeleteAfterProduction ==
    (pc = "delete" \/ deletes # <<>>) =>
        /\ wpc = "exited"
        /\ resultsClosed
        /\ wi > Len(buckets)
        /\ \A i \in Buckets : Attempted(i) /\ Returned(i)

\* deleteProcessedFiles has deleted the files of the first bucket and has
\* the second, which failed, before it
C12_Witness ==
    /\ pc = "delete"
    /\ di = 2
    /\ Len(buckets) = 2
    /\ Deleted = BucketFiles(1)
    /\ ~buckets[2].processed
    /\ wpc = "exited"

\* the buckets compactBucket has begun to read
Started == {i \in Buckets : BucketFiles(i) \cap Range(reads) # {}}

\* the buckets compactBucket has begun to read and has not returned from
InProgress == {i \in Started : StatsOf(i) = {}}

\* C13: at most one bucket is being compacted at any time, a bucket is
\* started only when every bucket before it is finished and its result
\* received, the worker goes past a bucket only when its result is received,
\* and so the started buckets are at most one more than the received
\* results.
C13_SequentialBackpressure ==
    /\ Cardinality(InProgress) <= 1
    /\ \A j \in Buckets : j < wi => \E k \in 1..Len(received) : received[k].bucket = j
    /\ \A i \in Started : \A j \in 1..(i - 1) :
        /\ j \notin InProgress
        /\ \E k \in 1..Len(received) : received[k].bucket = j
    /\ Cardinality(Started) <= Len(received) + 1

\* the worker merges the second bucket while the caller is still printing
\* the result of the first
C13_Witness ==
    /\ pc = "print"
    /\ Len(received) = 1
    /\ wpc = "merge"
    /\ Started = {1, 2}
    /\ InProgress = {2}

\* the worker is inside compactBucket
InBucket == wpc \in {"read", "newsst", "merge", "close"}

\* the worker enters compactBucket for the next bucket of its loop
StartsBucket == wpc = "loop" /\ wpc' = "read"

\* C14: once done is closed the worker enters compactBucket for no further
\* bucket, and a bucket it is in when done is closed is not abandoned.
C14_NoStartAfterCancel ==
    /\ [][doneClosed => ~StartsBucket]_vars
    /\ [][(doneClosed /\ InBucket) => wpc' # "exited"]_vars

\* the keys the segments of bucket i hold
BucketKeys(i) ==
    UNION {{data[f].recs[j].k : j \in 1..Len(data[f].recs)} : f \in BucketFiles(i)}

\* the segments of bucket i that hold key k
HoldersOf(i, k) ==
    {f \in BucketFiles(i) : \E j \in 1..Len(data[f].recs) : data[f].recs[j].k = k}

\* the value of key k in segment f
ValueIn(f, k) ==
    data[f].recs[CHOOSE j \in 1..Len(data[f].recs) : data[f].recs[j].k = k].v

\* the most recent of the segments of bucket i that hold key k
Newest(i, k) == CHOOSE f \in HoldersOf(i, k) : \A g \in HoldersOf(i, k) : g <= f

\* the places of key k in the records written to segment s
PlacesIn(s, k) == {j \in 1..Len(s.recs) : s.recs[j].k = k}

\* C15: the segment written for a processed bucket whose inputs are all
\* intact holds, for every key of the inputs, exactly one record, and its
\* value is the one of the most recent input segment that holds the key,
\* whatever the order of the files in the bucket was.
C15_LastWriterWins ==
    \A n \in 1..Len(ssts) :
        (ssts[n].closed /\ ~HasTruncated(ssts[n].bucket)) =>
            \A k \in BucketKeys(ssts[n].bucket) :
                /\ Cardinality(PlacesIn(ssts[n], k)) = 1
                /\ \A j \in PlacesIn(ssts[n], k) :
                    ssts[n].recs[j].v = ValueIn(Newest(ssts[n].bucket, k), k)

\* a segment is written for a bucket that was planned newest file first and
\* in which three segments hold key 1
C15_Witness ==
    /\ Len(ssts) >= 1
    /\ ssts[1].closed
    /\ ssts[1].bucket = 1
    /\ files[1] > files[2]
    /\ ~HasTruncated(1)
    /\ Cardinality(HoldersOf(1, 1)) >= 3
    /\ \E j \in PlacesIn(ssts[1], 1) : ssts[1].recs[j].v = Newest(1, 1)

\* the keys the chunk iterator over segment f yields
DecodedKeys(f) == {data[f].recs[j].k : j \in 1..data[f].cut}

\* a key occurs in more than one input segment of bucket i
KeyCollision(i) ==
    \E f, g \in BucketFiles(i) : f # g /\ DecodedKeys(f) \cap DecodedKeys(g) # {}

StrictlyIncreasing(recs) == \A a, b \in 1..Len(recs) : a < b => recs[a].k < recs[b].k

\* C16: the keys written to a new segment are strictly increasing, and the
\* statistics of a bucket that went through report no more keys after the
\* compaction than before it (the sum of the iterators' key counts), and
\* as many exactly when no key occurs in more than one input segment.
C16_SortedAndCounted ==
    /\ \A n \in 1..Len(ssts) : StrictlyIncreasing(ssts[n].recs)
    /\ \A i \in Buckets : \A r \in StatsOf(i) :
        ~r.err =>
            /\ r.numKeysAfterCompaction <= r.numKeysBeforeCompaction
            /\ r.numKeysBeforeCompaction =
                   SumSeq([j \in 1..Len(buckets[i].files) |-> data[buckets[i].files[j]].cut])
            /\ (r.numKeysAfterCompaction = r.numKeysBeforeCompaction) <=> ~KeyCollision(i)

\* the caller has the statistics of a bucket of three segments that share
\* no key: four keys before and four after
C16_Witness ==
    /\ Len(received) = 1
    /\ ~received[1].err
    /\ ~KeyCollision(1)
    /\ received[1].numFilesBeforeCompaction = 3
    /\ received[1].numKeysBeforeCompaction = 4
    /\ received[1].numKeysAfterCompaction = 4

\* the segments NewSSTable created for bucket i
SegmentsOf(i) == {n \in 1..Len(ssts) : ssts[n].bucket = i}

\* C17: a new segment exists only for a bucket all of whose input files
\* have been read, so none for a bucket whose read failed; a segment whose
\* writer is closed has its filter persisted; a bucket is processed only
\* if it has a segment with the filter persisted and the writer closed;
\* and the bucket of an error result is not processed.
C17_StepOrder ==
    /\ \A n \in 1..Len(ssts) :
        /\ BucketFiles(ssts[n].bucket) \subseteq Range(reads)
        /\ ssts[n].closed => ssts[n].filterWritten
    /\ \A i \in Buckets :
        /\ FailedAt(i, {"read"}) => SegmentsOf(i) = {}
        /\ buckets[i].processed =>
            \E n \in SegmentsOf(i) : ssts[n].filterWritten /\ ssts[n].closed
        /\ \A r \in StatsOf(i) : r.err => ~buckets[i].processed

\* the filter of the first bucket is persisted and its writer is not yet
\* closed: the bucket is not processed
C17_Witness ==
    /\ wpc = "close"
    /\ wi = 1
    /\ Len(ssts) = 1
    /\ ssts[1].filterWritten
    /\ ~ssts[1].closed
    /\ ~buckets[1].processed

KeysOf(recs) == [j \in 1..Len(recs) |-> recs[j].k]

NoRepeat(s) == \A a, b \in 1..Len(s) : a # b => s[a] # s[b]

\* C18: while a bucket is merged the keys added to the filter are the keys
\* w.Set was called with, in the same order and each once, and together
\* with what the merging iterator has still to emit they are the keys the
\* iterator emits; the filter persisted with a segment holds the keys Set
\* was called with for it, which for a segment whose writer closed are the
\* keys of the records written.
C18_FilterMatchesWrites ==
    /\ wpc \in {"merge", "close"} =>
        /\ filter = ssts[Len(ssts)].setKeys
        /\ NoRepeat(filter)
        /\ Len(filter) = emitted
        /\ filter \o KeysOf(merged) = KeysOf(NewMergingIterator(iters))
    /\ \A n \in 1..Len(ssts) :
        /\ ssts[n].filterWritten => ssts[n].filter = ssts[n].setKeys
        /\ ssts[n].closed => ssts[n].filter = KeysOf(ssts[n].recs)

\* a segment is closed whose filter and records hold the four keys of its
\* bucket
C18_Witness ==
    /\ Len(ssts) = 1
    /\ ssts[1].closed
    /\ ssts[1].filter = <<1, 2, 3, 4>>
    /\ KeysOf(ssts[1].recs) = <<1, 2, 3, 4>>

\* the worker goroutine is running: started by compactBuckets, not yet returned
WorkerRunning == wpc \notin {"idle", "exited"}

\* C19: once compactBuckets has started the worker, the worker eventually
\* closes results and exits, and it never stays at its send forever; every
\* Compact() run eventually returns, and a run that passed the gate returns
\* only after the worker has closed results and exited, whatever buckets
\* succeeded or failed.
C19_WorkerExitsCompactReturns ==
    /\ WorkerRunning ~> (wpc = "exited" /\ resultsClosed)
    /\ (wpc = "select") ~> (wpc # "select")
    /\ <>(pc = "returned")
    /\ [](RunOver => wpc = "exited" /\ resultsClosed)

\* a run over nine files has returned after a failed first bucket and a
\* compacted second one, with the worker gone and results closed
C19_Witness ==
    /\ RunOver
    /\ Len(files) = 9
    /\ wpc = "exited"
    /\ resultsClosed
    /\ Len(received) = 2
    /\ received[1].err
    /\ ~received[2].err
    /\ Len(deletes) = 5

\* the lists makeBuckets is working on: one per frame of the recursion
CallLists == {stack[k].files : k \in 1..Len(stack)}

\* C20: in the planning part of Compact() on up to MaxFiles files,
\* makeBuckets is never called on a list of fewer than minBucketSize files
\* and the planning always ends (in the plan, or in the return of a run the
\* gate refused); a list of minBucketSize + 1 to maxBucketSize files gives
\* exactly one bucket, and with more than maxBucketSize files every bucket
\* holds between maxBucketSize \div 2 and maxBucketSize files.
C20_GatedPlan ==
    /\ [](\A s \in CallLists : Len(s) >= minBucketSize)
    /\ [](pc # "overflow")
    /\ <>(pc \in {"planned", "returned"})
    /\ [](pc = "planned" /\ Len(files) <= maxBucketSize
            => Len(files) > minBucketSize /\ Len(buckets) = 1)
    /\ [](pc = "planned" /\ Len(files) > maxBucketSize
            => \A i \in Buckets :
                  /\ Len(buckets[i].files) >= maxBucketSize \div 2
                  /\ Len(buckets[i].files) <= maxBucketSize)

\* thirty-three files, newest first, planned as five buckets by three
\* levels of splitting
C20_Witness ==
    /\ pc = "planned"
    /\ Len(files) = 33
    /\ files[1] = 33
    /\ Len(buckets) = 5
    /\ Len(buckets[4].files) = 4

=============================================================================
